---- MODULE Spec2Model ----
(***************************************************************************)
(* Validation of a Gammapy high-level interface configuration document     *)
(* against gammapy/scripts/config/schema.yaml.                             *)
(*                                                                         *)
(* The schema is transcribed node by node as TLA+ data (one definition per *)
(* schema node, same keywords, same order of properties).  The keywords    *)
(* are evaluated with the JSON-Schema draft-07 semantics, the draft whose  *)
(* vocabulary (`dependencies`, `definitions`, `$ref`) the schema uses.     *)
(***************************************************************************)
EXTENDS Integers, Sequences, FiniteSets, TLC

VARIABLES doc, pc, valid, errors, config,   \* the validation run
          idx, datasets, objects,            \* the light-curve simulation
          workers                            \* concurrent validations

runVars == <<doc, pc, valid, errors, config>>

simVars == <<idx, datasets, objects>>

vars == <<doc, pc, valid, errors, config, idx, datasets, objects, workers>>

(***************************************************************************)
(* JSON / YAML values.  Every value carries the type the YAML loader gives *)
(* it, so that the integer 50 and the string "50" are different values.    *)
(* A float is kept in tenths (JFloat(25) is 2.5, JFloat(500) is 50.0).     *)
(***************************************************************************)
JStr(s) == [t |-> "string", s |-> s]

JInt(n) == [t |-> "integer", n |-> n]

JFloat(k) == [t |-> "float", tenths |-> k]

JBool(b) == [t |-> "boolean", b |-> b]

JNull == [t |-> "null"]

JObj(f) == [t |-> "object", o |-> f]

JArr(q) == [t |-> "array", a |-> q]

EmptyObj == JObj(<<>>)

NoDoc == [t |-> "none"]

IsObj(v) == v.t = "object"

IsArr(v) == v.t = "array"

HasKey(v, k) == IsObj(v) /\ k \in DOMAIN v.o

\* The value as a number of tenths, for numeric comparison (50 = 50.0).
Tenths(v) == IF v.t = "integer" THEN 10 * v.n ELSE v.tenths

IsNumeric(v) == v.t \in {"integer", "float"}

\* Equality of two instances as `enum` compares them.
JsonEqual(a, b) ==
    IF IsNumeric(a) /\ IsNumeric(b) THEN Tenths(a) = Tenths(b) ELSE a = b

\* The `type` keyword: does the instance have the named JSON-Schema type.
IsType(inst, type) ==
    CASE type = "object"  -> inst.t = "object"
      [] type = "array"   -> inst.t = "array"
      [] type = "string"  -> inst.t = "string"
      [] type = "boolean" -> inst.t = "boolean"
      [] type = "null"    -> inst.t = "null"
      [] type = "number"  -> IsNumeric(inst)
      [] type = "integer" -> \/ inst.t = "integer"
                             \/ (inst.t = "float" /\ inst.tenths % 10 = 0)
      [] OTHER            -> FALSE

(***************************************************************************)
(* The schema.                                                             *)
(***************************************************************************)
Prop(name, schema) == [name |-> name, schema |-> schema]

LevelEnum ==
    << JStr("CRITICAL"), JInt(50),
       JStr("ERROR"), JInt(40),
       JStr("WARNING"), JInt(30),
       JStr("INFO"), JInt(20),
       JStr("DEBUG"), JInt(10),
       JStr("NOTSET") >>

LevelSchemaTypeOnly ==
    [ description |-> "",
      type |-> "string",
      default |-> JStr("INFO") ]

LevelSchema ==
    [ description |-> "",
      type |-> "string",
      default |-> JStr("INFO"),
      enum |-> LevelEnum ]

LoggingProperties ==
    << Prop("level", LevelSchema),
       Prop("filename", [type |-> "string"]),
       Prop("filemode", [type |-> "string"]),
       Prop("format", [type |-> "string"]),
       Prop("datefmt", [type |-> "string"]) >>

LoggingRequired == << "level" >>

LoggingDependenciesReversed ==
    << [property |-> "filename", requires |-> << "filemode" >>] >>

LoggingDependenciesMutual ==
    << [property |-> "filemode", requires |-> << "filename" >>],
       [property |-> "filename", requires |-> << "filemode" >>] >>

LoggingDependencies == << [property |-> "filemode", requires |-> << "filename" >>] >>

LoggingSchemaOpen ==
    [ description |-> "Logging settings for the session.",
      type |-> "object",
      default |-> JObj([level |-> JStr("")]),
      additionalProperties |-> TRUE,
      properties |-> LoggingProperties,
      required |-> LoggingRequired,
      dependencies |-> LoggingDependencies ]

LoggingSchema ==
    [ description |-> "Logging settings for the session.",
      type |-> "object",
      default |-> JObj([level |-> JStr("")]),
      additionalProperties |-> FALSE,
      properties |-> LoggingProperties,
      required |-> LoggingRequired,
      dependencies |-> LoggingDependencies ]

OutFolderSchemaUntyped ==
    [ description |-> "Output folder where files will be stored.",
      default |-> JStr(".") ]

OutFolderSchema ==
    [ description |-> "Output folder where files will be stored.",
      type |-> "string",
      default |-> JStr(".") ]

GeneralRequiredNone == << >>

GeneralRequiredOutFolder == << "logging", "out_folder" >>

GeneralRequired == << "logging" >>

GeneralSchema ==
    [ description |-> "General settings for the API.",
      type |-> "object",
      default |-> JObj([logging |-> EmptyObj]),
      additionalProperties |-> FALSE,
      properties |-> << Prop("out_folder", OutFolderSchema),
                        Prop("logging", LoggingSchema) >>,
      required |-> GeneralRequired ]

ObservationsSchemaNoItems ==
    [ description |-> "Observations used in the analysis.",
      type |-> "object",
      additionalProperties |-> FALSE,
      properties |->
        << Prop("data_store",
                [ description |-> "Data store where to fetch the observations.",
                  type |-> "string" ]),
           Prop("filter", [type |-> "array"]) >> ]

ObservationsSchemaDataStoreRequired ==
    [ description |-> "Observations used in the analysis.",
      type |-> "object",
      additionalProperties |-> FALSE,
      properties |->
        << Prop("data_store",
                [ description |-> "Data store where to fetch the observations.",
                  type |-> "string" ]),
           Prop("filter",
                [ type |-> "array",
                  items |-> [ref |-> "observations_filter"] ]) >>,
      required |-> << "data_store" >> ]

ObservationsSchema ==
    [ description |-> "Observations used in the analysis.",
      type |-> "object",
      additionalProperties |-> FALSE,
      properties |->
        << Prop("data_store",
                [ description |-> "Data store where to fetch the observations.",
                  type |-> "string" ]),
           Prop("filter",
                [ type |-> "array",
                  items |-> [ref |-> "observations_filter"] ]) >> ]

GridSchemaClosed == [type |-> "object", additionalProperties |-> FALSE]

GridSchema == [type |-> "object"]

ModelSchema == [type |-> "object"]

AnalysisSchema == [type |-> "object"]

RootRequiredNone == << >>

RootRequired == << "general" >>

RootProperties ==
    << Prop("general", GeneralSchema),
       Prop("observations", ObservationsSchema),
       Prop("grid", GridSchema),
       Prop("model", ModelSchema),
       Prop("analysis", AnalysisSchema) >>

RootSchemaOpen ==
    [ type |-> "object",
      additionalProperties |-> TRUE,
      properties |-> RootProperties,
      required |-> RootRequired ]

RootSchemaUntyped ==
    [ additionalProperties |-> FALSE,
      properties |-> RootProperties,
      required |-> RootRequired ]

RootSchema ==
    [ type |-> "object",
      additionalProperties |-> FALSE,
      properties |-> RootProperties,
      required |-> RootRequired ]

FilterTypeEnum ==
    << JStr("sky_circle"), JStr("angle_box"), JStr("quantity_box"),
       JStr("par_box"), JStr("ids") >>

FrameEnumNoFk5 == << JStr("galactic"), JStr("equatorial"), JStr("icrs") >>

FrameEnum == << JStr("galactic"), JStr("equatorial"), JStr("icrs"), JStr("fk5") >>

ValueRangeSchemaMax3 ==
    [ type |-> "array",
      items |-> [type |-> "number"],
      minItems |-> 2,
      maxItems |-> 3 ]

ValueRangeSchemaIntegers ==
    [ type |-> "array",
      items |-> [type |-> "integer"],
      minItems |-> 2,
      maxItems |-> 2 ]

ValueRangeSchema ==
    [ type |-> "array",
      items |-> [type |-> "number"],
      minItems |-> 2,
      maxItems |-> 2 ]

ObsIdsSchemaNumber == [type |-> "array", items |-> [type |-> "number"]]

ObsIdsSchema == [type |-> "array", items |-> [type |-> "integer"]]

ObservationsFilterPropertiesNoInverted ==
    << Prop("exclude", [type |-> "boolean"]),
       Prop("filter_type", [enum |-> FilterTypeEnum]),
       Prop("frame", [enum |-> FrameEnum]),
       Prop("lon", [type |-> "number"]),
       Prop("lat", [type |-> "number"]),
       Prop("radius", [type |-> "number"]),
       Prop("border", [type |-> "number"]),
       Prop("variable", [type |-> "string"]),
       Prop("value_range", ValueRangeSchema),
       Prop("obs_ids", ObsIdsSchema) >>

ObservationsFilterPropertiesRadiusString ==
    << Prop("exclude", [type |-> "boolean"]),
       Prop("inverted", [type |-> "boolean"]),
       Prop("filter_type", [enum |-> FilterTypeEnum]),
       Prop("frame", [enum |-> FrameEnum]),
       Prop("lon", [type |-> "number"]),
       Prop("lat", [type |-> "number"]),
       Prop("radius", [type |-> "string"]),
       Prop("border", [type |-> "number"]),
       Prop("variable", [type |-> "string"]),
       Prop("value_range", ValueRangeSchema),
       Prop("obs_ids", ObsIdsSchema) >>

ObservationsFilterProperties ==
    << Prop("exclude", [type |-> "boolean"]),
       Prop("inverted", [type |-> "boolean"]),
       Prop("filter_type", [enum |-> FilterTypeEnum]),
       Prop("frame", [enum |-> FrameEnum]),
       Prop("lon", [type |-> "number"]),
       Prop("lat", [type |-> "number"]),
       Prop("radius", [type |-> "number"]),
       Prop("border", [type |-> "number"]),
       Prop("variable", [type |-> "string"]),
       Prop("value_range", ValueRangeSchema),
       Prop("obs_ids", ObsIdsSchema) >>

ObservationsFilterTypeRequired ==
    [ description |-> "Filter criteria to select the observations.",
      type |-> "object",
      additionalProperties |-> FALSE,
      properties |-> ObservationsFilterProperties,
      required |-> << "filter_type" >> ]

ObservationsFilterOpen ==
    [ description |-> "Filter criteria to select the observations.",
      type |-> "object",
      additionalProperties |-> TRUE,
      properties |-> ObservationsFilterProperties ]

ObservationsFilter ==
    [ description |-> "Filter criteria to select the observations.",
      type |-> "object",
      additionalProperties |-> FALSE,
      properties |-> ObservationsFilterProperties ]

Definitions == [observations_filter |-> ObservationsFilter]

(***************************************************************************)
(* The validation engine: one operator per JSON-Schema keyword the schema  *)
(* uses.  A violation names the path of the instance it is about (keys and *)
(* 0-based array indices), the failing keyword, and what the keyword       *)
(* complains about.                                                        *)
(***************************************************************************)
Key(k) == [key |-> k]

Idx(i) == [idx |-> i]

Violation(path, keyword, what, of) ==
    [path |-> path, keyword |-> keyword, what |-> what, of |-> of]

PropertyNames(props) == {props[i].name : i \in 1..Len(props)}

\* A `$ref` node stands for the definition it names.
Resolve(schema) ==
    IF "ref" \in DOMAIN schema THEN Definitions[schema.ref] ELSE schema

TypeErrors(s, inst, path) ==
    IF "type" \in DOMAIN s /\ ~IsType(inst, s.type)
    THEN << Violation(path, "type", {s.type}, "") >>
    ELSE << >>

\* additionalProperties: false -- one violation naming all the extra keys.
AdditionalPropertiesErrors(s, inst, path) ==
    IF "additionalProperties" \in DOMAIN s /\ IsObj(inst)
    THEN LET declared == IF "properties" \in DOMAIN s
                         THEN PropertyNames(s.properties) ELSE {}
             extras == DOMAIN inst.o \ declared
         IN IF ~s.additionalProperties /\ extras # {}
            THEN << Violation(path, "additionalProperties", extras, "") >>
            ELSE << >>
    ELSE << >>

\* required -- one violation per missing key, in the order of the list.
RequiredErrors(s, inst, path) ==
    IF "required" \in DOMAIN s /\ IsObj(inst)
    THEN LET missing == SelectSeq(s.required, LAMBDA k : k \notin DOMAIN inst.o)
         IN [i \in 1..Len(missing) |->
                Violation(path, "required", {missing[i]}, "")]
    ELSE << >>

\* The keys `requires` lists that the object lacks, one violation each.
DependencyErrors(dep, inst, path) ==
    IF dep.property \in DOMAIN inst.o
    THEN LET missing == SelectSeq(dep.requires, LAMBDA k : k \notin DOMAIN inst.o)
         IN [i \in 1..Len(missing) |->
                Violation(path, "dependencies", {missing[i]}, dep.property)]
    ELSE << >>

RECURSIVE DependenciesFrom(_, _, _, _)
DependenciesFrom(deps, i, inst, path) ==
    IF i > Len(deps) THEN << >>
    ELSE DependencyErrors(deps[i], inst, path)
           \o DependenciesFrom(deps, i + 1, inst, path)

DependenciesErrors(s, inst, path) ==
    IF "dependencies" \in DOMAIN s /\ IsObj(inst)
    THEN DependenciesFrom(s.dependencies, 1, inst, path)
    ELSE << >>

EnumErrors(s, inst, path) ==
    IF "enum" \in DOMAIN s
       /\ \A i \in 1..Len(s.enum) : ~JsonEqual(inst, s.enum[i])
    THEN << Violation(path, "enum", {}, "") >>
    ELSE << >>

MinItemsErrors(s, inst, path) ==
    IF "minItems" \in DOMAIN s /\ IsArr(inst) /\ Len(inst.a) < s.minItems
    THEN << Violation(path, "minItems", {}, "") >>
    ELSE << >>

MaxItemsErrors(s, inst, path) ==
    IF "maxItems" \in DOMAIN s /\ IsArr(inst) /\ Len(inst.a) > s.maxItems
    THEN << Violation(path, "maxItems", {}, "") >>
    ELSE << >>

RECURSIVE Errors(_, _, _)
RECURSIVE PropertiesFrom(_, _, _, _)
RECURSIVE ItemsFrom(_, _, _, _)

\* properties -- each declared key the object has, in the order declared.
PropertiesFrom(props, i, inst, path) ==
    IF i > Len(props) THEN << >>
    ELSE (IF props[i].name \in DOMAIN inst.o
          THEN Errors(props[i].schema, inst.o[props[i].name],
                      Append(path, Key(props[i].name)))
          ELSE << >>)
           \o PropertiesFrom(props, i + 1, inst, path)

PropertiesErrors(s, inst, path) ==
    IF "properties" \in DOMAIN s /\ IsObj(inst)
    THEN PropertiesFrom(s.properties, 1, inst, path)
    ELSE << >>

\* items -- every element of the array, in index order.
ItemsFrom(schema, i, inst, path) ==
    IF i > Len(inst.a) THEN << >>
    ELSE Errors(schema, inst.a[i], Append(path, Idx(i - 1)))
           \o ItemsFrom(schema, i + 1, inst, path)

ItemsErrors(s, inst, path) ==
    IF "items" \in DOMAIN s /\ IsArr(inst)
    THEN ItemsFrom(s.items, 1, inst, path)
    ELSE << >>

\* A validator that gives up at the first violation it meets.
ErrorsFirstOnly(schema, inst, path) ==
    LET s == Resolve(schema)
        all == TypeErrors(s, inst, path)
                 \o AdditionalPropertiesErrors(s, inst, path)
                 \o PropertiesErrors(s, inst, path)
                 \o RequiredErrors(s, inst, path)
                 \o DependenciesErrors(s, inst, path)
                 \o EnumErrors(s, inst, path)
                 \o ItemsErrors(s, inst, path)
                 \o MinItemsErrors(s, inst, path)
                 \o MaxItemsErrors(s, inst, path)
    IN IF all = << >> THEN << >> ELSE << all[1] >>

\* All violations of an instance against a schema node: every keyword of
\* the node is evaluated, none stops the others.
Errors(schema, inst, path) ==
    LET s == Resolve(schema)
    IN TypeErrors(s, inst, path)
         \o AdditionalPropertiesErrors(s, inst, path)
         \o PropertiesErrors(s, inst, path)
         \o RequiredErrors(s, inst, path)
         \o DependenciesErrors(s, inst, path)
         \o EnumErrors(s, inst, path)
         \o ItemsErrors(s, inst, path)
         \o MinItemsErrors(s, inst, path)
         \o MaxItemsErrors(s, inst, path)

\* Validation of a whole document against the schema.
Validate(d) == Errors(RootSchema, d, << >>)

IsValid(d) == Validate(d) = << >>

(***************************************************************************)
(* The documents the model validates.  An object is a function from its    *)
(* keys; Nil is the object part that contributes no key.                   *)
(***************************************************************************)
MaxRangeLen == 3

MaxFilters == 2

MaxObsIds == 2

Nil == [k \in {} |-> k]

\* A key that is either absent or present with one of the values.
Opt(k, values) == {Nil} \cup {k :> v : v \in values}

SeqsUpTo(S, n) == UNION {[1..m -> S] : m \in 0..n}

LevelNames == {"CRITICAL", "ERROR", "WARNING", "INFO", "DEBUG", "NOTSET"}

LevelNumbers == {50, 40, 30, 20, 10}

LevelValues ==
    {JStr(x) : x \in LevelNames} \cup {JInt(n) : n \in LevelNumbers}
      \cup {JStr("50"), JStr("info"), JStr(""), JStr("VERBOSE"),
            JInt(60), JInt(0), JFloat(500), JFloat(505), JBool(TRUE), JNull}

FileFields ==
    { Nil,
      "filename" :> JStr("gammapy.log"),
      "filemode" :> JStr("w"),
      ("filename" :> JStr("gammapy.log")) @@ ("filemode" :> JStr("w")),
      "filemode" :> JInt(1) }

LoggingValues ==
    {JObj(l @@ f @@ x) : l \in Opt("level", LevelValues), f \in FileFields,
                         x \in Opt("handlers", {JStr("console")})}
      \cup {JObj(("level" :> JStr("INFO")) @@ fm @@ df) :
               fm \in Opt("format", {JStr("%(levelname)s %(message)s"), JInt(1)}),
               df \in Opt("datefmt", {JStr("%H:%M:%S"), JNull})}
      \cup {JStr("INFO"), JNull}

OutFolderValues ==
    { JStr("."), JStr("results"), JInt(1), JFloat(25), JBool(TRUE),
      JArr(<< JStr(".") >>), JObj([path |-> JStr(".")]) }

GeneralValues ==
    {JObj(l @@ f) : l \in Opt("logging", LoggingValues),
                    f \in Opt("out_folder", {JStr(".")})}
      \cup
    {JObj(l @@ f @@ x) :
        l \in Opt("logging", {JObj([level |-> JStr("INFO")])}),
        f \in Opt("out_folder", OutFolderValues),
        x \in Opt("n_jobs", {JInt(1)})}
      \cup {JStr("general"), JNull}

MinimalGeneral == JObj([logging |-> JObj([level |-> JStr("INFO")])])

MinimalDoc == JObj([general |-> MinimalGeneral])

FilterTypeValues ==
    {JStr(x) : x \in {"sky_circle", "angle_box", "quantity_box", "par_box", "ids"}}
      \cup {JStr("sky_box"), JStr("SKY_CIRCLE"), JInt(1), JNull}

FrameValues ==
    {JStr(x) : x \in {"galactic", "equatorial", "icrs", "fk5"}}
      \cup {JStr("Galactic"), JStr("fk4"), JInt(0)}

RangeItems == {JInt(1), JInt(5), JFloat(25), JStr("a")}

ValueRangeValues ==
    {JArr(q) : q \in SeqsUpTo(RangeItems, MaxRangeLen)} \cup {JInt(3)}

ObsIdItems ==
    {JInt(1), JInt(7), JFloat(25), JFloat(10), JStr("1"), JBool(TRUE), JNull}

ObsIdsValues ==
    {JArr(q) : q \in SeqsUpTo(ObsIdItems, MaxObsIds)} \cup {JInt(1), JStr("1 7")}

NumberFieldValues ==
    { JInt(1), JFloat(25), JStr("1"), JBool(TRUE), JNull, JArr(<< JInt(1) >>) }

VariableValues == { JStr("ZEN_PNT"), JStr(""), JInt(1), JBool(FALSE), JNull }

FlagValues == { JBool(TRUE), JBool(FALSE), JInt(1), JStr("true"), JNull }

\* Entries with one field besides filter_type, frame, value_range, obs_ids.
FieldEntries ==
    {JObj(k :> v) : k \in {"lon", "lat", "radius", "border"},
                    v \in NumberFieldValues}
      \cup {JObj("variable" :> v) : v \in VariableValues}
      \cup {JObj(k :> v) : k \in {"exclude", "inverted"}, v \in FlagValues}

\* Entries whose fields go, or do not go, with their filter_type.
TypedEntries ==
    {JObj(ft @@ f) :
        ft \in Opt("filter_type", {JStr("sky_circle"), JStr("angle_box"),
                                   JStr("quantity_box"), JStr("par_box"),
                                   JStr("ids")}),
        f \in { [frame |-> JStr("icrs"), lon |-> JFloat(836), lat |-> JFloat(220),
                 radius |-> JInt(1), border |-> JFloat(5)],
                [variable |-> JStr("ZEN_PNT"),
                 value_range |-> JArr(<< JInt(5), JInt(1) >>), inverted |-> JBool(TRUE)],
                [obs_ids |-> JArr(<< JInt(7) >>), exclude |-> JBool(FALSE)] }}

FilterEntries ==
    FieldEntries \cup TypedEntries \cup
    {JObj(ft @@ fr @@ x) : ft \in Opt("filter_type", FilterTypeValues),
                           fr \in Opt("frame", FrameValues),
                           x \in Opt("foo", {JInt(1)})}
      \cup
    {JObj(ft @@ vr @@ x) :
        ft \in Opt("filter_type", {JStr("par_box"), JStr("sky_circle")}),
        vr \in Opt("value_range", ValueRangeValues),
        x \in Opt("foo", {JInt(1)})}
      \cup
    {JObj(ft @@ ("obs_ids" :> ids)) :
        ft \in Opt("filter_type", {JStr("ids")}), ids \in ObsIdsValues}
      \cup {JStr("sky_circle")}

SmallEntries ==
    { EmptyObj,
      JStr("sky_circle"),
      JObj([filter_type |-> JStr("sky_circle"), frame |-> JStr("icrs")]),
      JObj([filter_type |-> JStr("sky_circle"), foo |-> JInt(1)]),
      JObj([filter_type |-> JStr("par_box"),
            value_range |-> JArr(<<JInt(1), JInt(5), JInt(5)>>)]) }

FilterValues ==
    {JArr(<<e>>) : e \in FilterEntries}
      \cup {JArr(<< EmptyObj, e >>) : e \in FieldEntries}
      \cup {JArr(q) : q \in SeqsUpTo(SmallEntries, MaxFilters)}
      \cup {JStr("sky_circle")}

ObservationsValues ==
    {JObj("filter" :> f) : f \in FilterValues}
      \cup {JObj(ds @@ f) : ds \in Opt("data_store", {JStr("$GAMMAPY_DATA"), JInt(1)}),
                            f \in Opt("filter", {JArr(<<>>)})}
      \cup {JObj("obs_ids" :> JArr(<<JInt(1)>>)), JStr("observations")}

\* The other top-level sections: each present or absent, and an unknown key.
OtherSections ==
    {g @@ m @@ a @@ u : g \in Opt("grid", {EmptyObj}),
                        m \in Opt("model", {JObj([spectral |-> JStr("pwl")])}),
                        a \in Opt("analysis", {JObj([fit |-> JBool(TRUE)])}),
                        u \in Opt("datasets", {JInt(1)})}

SectionValues ==
    { EmptyObj,
      JObj([binsz |-> JFloat(1),
            region |-> JObj([center |-> JArr(<< JInt(1), JNull >>)])]),
      JObj([general |-> JInt(1), foo |-> JNull, level |-> JStr("VERBOSE")]),
      JStr("section"), JInt(1), JBool(FALSE), JNull,
      JArr(<< >>), JArr(<< EmptyObj >>) }

\* Documents with one of grid, model, analysis set to an arbitrary value.
SectionDocs ==
    {JObj(("general" :> MinimalGeneral) @@ (k :> v)) :
        k \in {"grid", "model", "analysis"}, v \in SectionValues}

\* Documents that break up to three independent constraints at once.
BrokenDocs ==
    {JObj(g @@ o @@ r) :
        g \in {"general" :> JObj("logging" :> JObj(l @@ f)) :
                  l \in Opt("level", {JStr("INFO"), JStr("VERBOSE"), JInt(60)}),
                  f \in {Nil, "filemode" :> JStr("w")}},
        o \in {"observations" :> JObj("filter" :> JArr(q)) :
                  q \in SeqsUpTo(SmallEntries, MaxFilters)},
        r \in Opt("datasets", {JInt(1)})}

\* Inputs that are not a mapping: scalars and sequences.
NonMappingDocs ==
    { JStr("general"), JInt(1), JFloat(25), JBool(TRUE), JNull,
      JArr(<< >>), JArr(<< JStr("general") >>), JArr(<< MinimalDoc >>) }

Docs ==
    {JObj(g @@ r) : g \in Opt("general", GeneralValues),
                    r \in Opt("datasets", {JInt(1)})}
      \cup
    {JObj(g @@ o @@ r) :
        g \in Opt("general", {MinimalGeneral}),
        o \in Opt("observations", {EmptyObj,
                                   JObj([filter |-> JArr(<<EmptyObj>>)]),
                                   JObj([filter |-> JArr(<< >>)]),
                                   JObj([data_store |-> JStr("$GAMMAPY_DATA")])}),
        r \in OtherSections}
      \cup
    {JObj(g @@ o @@ r) :
        g \in Opt("general", {MinimalGeneral}),
        o \in Opt("observations", ObservationsValues),
        r \in Opt("datasets", {JInt(1)})}
      \cup BrokenDocs
      \cup SectionDocs
      \cup NonMappingDocs

(***************************************************************************)
(* The light-curve tutorial: the simulation loop over n_obs observations.  *)
(* Times are in minutes after the reference time gti_t0; a dataset is an   *)
(* object of the heap `objects`, and `datasets` holds object identities.   *)
(***************************************************************************)
MaxCounts == 1

n_obs == 10

\* Start of each observation, in hours.
tstart == << 1, 2, 3, 5, 8, 10, 20, 22, 23, 24 >>

\* Livetime of each observation, in minutes.
lvtm == << 55, 25, 26, 40, 40, 50, 40, 52, 43, 47 >>

MinutesPerHour == 60

NoObs == -1

EmptyId == 0

\* SpectrumDataset.create(..., name="empty"): no observation, no counts.
empty ==
    [ name |-> "empty", obs_id |-> NoObs, gti_start |-> NoObs,
      gti_stop |-> NoObs, models |-> "none", counts |-> 0 ]

\* Observation.create(livetime=lvtm[idx], tstart=tstart[idx], obs_id=idx):
\* the good time interval starts at tstart and lasts the livetime.
Observation(i) ==
    [ obs_id |-> i,
      tstart |-> MinutesPerHour * tstart[i + 1],
      tstop |-> MinutesPerHour * tstart[i + 1] + lvtm[i + 1] ]

\* f"dataset-{idx}"
DatasetName(i) == "dataset-" \o ToString(i)

\* maker.run(dataset, obs), dataset.models = model_simu, dataset.fake():
\* the dataset takes the observation's identity and time interval, the
\* simulation model, and the counts drawn by the random generator.
Simulated(dataset, obs, c) ==
    [ dataset EXCEPT !.obs_id = obs.obs_id,
                     !.gti_start = obs.tstart,
                     !.gti_stop = obs.tstop,
                     !.models = "model-simu",
                     !.counts = c ]

SimStart ==
    /\ idx = 0
    /\ datasets = << >>
    /\ objects = (EmptyId :> empty)

\* An iteration that fills the empty dataset itself instead of a copy.
SimulateNoCopy ==
    /\ idx < n_obs
    /\ \E c \in 0..MaxCounts :
          LET empty_i == [objects[EmptyId] EXCEPT !.name = DatasetName(idx)]
              dataset == Simulated(empty_i, Observation(idx), c)
          IN /\ objects' = [objects EXCEPT ![EmptyId] = dataset]
             /\ datasets' = Append(datasets, EmptyId)
    /\ idx' = idx + 1
    /\ UNCHANGED <<runVars, workers>>

\* One iteration of `for idx in range(n_obs)`.
Simulate ==
    /\ idx < n_obs
    /\ \E c \in 0..MaxCounts :
          LET id == Cardinality(DOMAIN objects)
              empty_i == [objects[EmptyId] EXCEPT !.name = DatasetName(idx)]
              dataset == Simulated(empty_i, Observation(idx), c)
          IN /\ objects' = objects @@ (id :> dataset)
             /\ datasets' = Append(datasets, id)
    /\ idx' = idx + 1
    /\ UNCHANGED <<runVars, workers>>

(***************************************************************************)
(* Concurrent validations: each worker validates its own document, one     *)
(* keyword of the root schema at a time, and may be preempted in between.  *)
(***************************************************************************)
NumWorkers == 2

Workers == 1..NumWorkers

Idle == [state |-> "idle", doc |-> NoDoc, step |-> 0, errors |-> << >>, valid |-> FALSE]

WorkersStart == workers = [w \in Workers |-> Idle]

(***************************************************************************)
(* The validation run: a parsed document is handed to the validator, which *)
(* returns the validity result and the ordered list of violations; an      *)
(* accepted document becomes the configuration of the session.             *)
(***************************************************************************)
Init ==
    /\ doc = NoDoc
    /\ pc = "start"
    /\ valid = FALSE
    /\ errors = << >>
    /\ config = NoDoc
    /\ SimStart
    /\ WorkersStart

\* The loader hands over the tree it parsed from the user's file.
Parse(d) ==
    /\ pc = "start"
    /\ doc' = d
    /\ pc' = "parsed"
    /\ UNCHANGED <<valid, errors, config>>
    /\ UNCHANGED <<simVars, workers>>

\* A validator that writes the schema's default for `general` into the
\* document it validates.
ValidateDocFillingDefaults ==
    /\ pc = "parsed"
    /\ doc' = IF IsObj(doc) /\ "general" \notin DOMAIN doc.o
              THEN JObj(doc.o @@ ("general" :> GeneralSchema.default))
              ELSE doc
    /\ errors' = Validate(doc')
    /\ valid' = (errors' = << >>)
    /\ config' = IF errors' = << >> THEN doc' ELSE NoDoc
    /\ pc' = "validated"
    /\ UNCHANGED <<simVars, workers>>

\* A validator whose verdict looks at the top-level violations only.
ValidateDocTopLevelVerdict ==
    /\ pc = "parsed"
    /\ errors' = Validate(doc)
    /\ valid' = (\A i \in 1..Len(errors') : errors'[i].path # << >>)
    /\ config' = IF valid' THEN doc ELSE NoDoc
    /\ pc' = "validated"
    /\ UNCHANGED doc
    /\ UNCHANGED <<simVars, workers>>

\* One validation of the parsed document against the schema.
ValidateDoc ==
    /\ pc = "parsed"
    /\ errors' = Validate(doc)
    /\ valid' = (errors' = << >>)
    /\ config' = IF errors' = << >> THEN doc ELSE NoDoc
    /\ pc' = "validated"
    /\ UNCHANGED doc
    /\ UNCHANGED <<simVars, workers>>

\* A run that overrides a section of the configuration it was given.
UseConfigOverriding ==
    /\ pc = "validated"
    /\ valid
    /\ config' = JObj(("grid" :> EmptyObj) @@ config.o)
    /\ pc' = "running"
    /\ UNCHANGED <<doc, valid, errors>>
    /\ UNCHANGED <<simVars, workers>>

\* The analysis run starts on an accepted configuration and only reads it.
UseConfig ==
    /\ pc = "validated"
    /\ valid
    /\ pc' = "running"
    /\ UNCHANGED <<doc, valid, errors, config>>
    /\ UNCHANGED <<simVars, workers>>

Next ==
    \/ \E d \in Docs : Parse(d)
    \/ ValidateDoc
    \/ UseConfig

Spec == Init /\ [][Next]_vars

SimSpec == Init /\ [][Simulate]_vars

(***************************************************************************)
(* Concurrent validations.  A worker is handed a document, evaluates the   *)
(* keywords of the root schema one at a time into its own list of          *)
(* violations, and returns the verdict; workers interleave at every step.  *)
(***************************************************************************)
\* The keywords of the root schema node, in the order they are evaluated.
RootKeywords == << "type", "additionalProperties", "properties", "required" >>

KeywordErrors(k, schema, inst, path) ==
    CASE k = "type" -> TypeErrors(schema, inst, path)
      [] k = "additionalProperties" -> AdditionalPropertiesErrors(schema, inst, path)
      [] k = "properties" -> PropertiesErrors(schema, inst, path)
      [] k = "required" -> RequiredErrors(schema, inst, path)

\* The documents handed to the workers: valid, not a mapping, an unknown
\* key without `general`, a bad level, a bad filter entry, an open section.
ConcDocs ==
    { MinimalDoc,
      JStr("general"),
      JObj("datasets" :> JInt(1)),
      JObj([general |-> JObj([logging |-> JObj([level |-> JStr("VERBOSE")])]),
            analysis |-> JInt(1)]),
      JObj([general |-> MinimalGeneral,
            observations |-> JObj([filter |-> JArr(<< JObj([foo |-> JInt(1)]) >>)])]),
      JObj([general |-> MinimalGeneral, grid |-> JObj([anything |-> JInt(1)])]) }

Invoke(w, d) ==
    /\ workers[w].state = "idle"
    /\ workers' = [workers EXCEPT ![w] =
                      [state |-> "running", doc |-> d, step |-> 1,
                       errors |-> << >>, valid |-> FALSE]]
    /\ UNCHANGED <<runVars, simVars>>

\* A step that appends what it finds to one list of violations shared by
\* every validation in progress.
StepSharedErrors(w) ==
    /\ workers[w].state = "running"
    /\ workers[w].step <= Len(RootKeywords)
    /\ LET found == KeywordErrors(RootKeywords[workers[w].step], RootSchema,
                                  workers[w].doc, << >>)
       IN workers' = [v \in Workers |->
                        IF workers[v].state # "running" THEN workers[v]
                        ELSE [workers[v] EXCEPT
                                !.errors = @ \o found,
                                !.step = IF v = w THEN @ + 1 ELSE @]]
    /\ UNCHANGED <<runVars, simVars>>

\* The worker evaluates its next keyword against its own document.
Step(w) ==
    /\ workers[w].state = "running"
    /\ workers[w].step <= Len(RootKeywords)
    /\ LET found == KeywordErrors(RootKeywords[workers[w].step], RootSchema,
                                  workers[w].doc, << >>)
       IN workers' = [workers EXCEPT ![w].errors = @ \o found,
                                     ![w].step = @ + 1]
    /\ UNCHANGED <<runVars, simVars>>

\* Every keyword is evaluated: the worker returns the verdict.
Return(w) ==
    /\ workers[w].state = "running"
    /\ workers[w].step = Len(RootKeywords) + 1
    /\ workers' = [workers EXCEPT ![w].state = "done",
                                  ![w].valid = (workers[w].errors = << >>)]
    /\ UNCHANGED <<runVars, simVars>>

\* The caller takes the result; the worker can be invoked again.
Release(w) ==
    /\ workers[w].state = "done"
    /\ workers' = [workers EXCEPT ![w] = Idle]
    /\ UNCHANGED <<runVars, simVars>>

ConcNext ==
    \E w \in Workers :
        \/ \E d \in ConcDocs : Invoke(w, d)
        \/ Step(w)
        \/ Return(w)
        \/ Release(w)

ConcSpec == Init /\ [][ConcNext]_vars

(***************************************************************************)
(* Properties of the validation run.                                       *)
(***************************************************************************)
Done == pc = "validated"

HasViolation(path, keyword) ==
    \E i \in 1..Len(errors) :
        errors[i].path = path /\ errors[i].keyword = keyword

HasViolationAt(path) == \E i \in 1..Len(errors) : errors[i].path = path

LoggingPath == << Key("general"), Key("logging") >>

LevelPath == << Key("general"), Key("logging"), Key("level") >>

HasLogging(d) == HasKey(d, "general") /\ HasKey(d.o["general"], "logging")

LoggingOf(d) == d.o["general"].o["logging"]

HasLevel(d) == HasLogging(d) /\ HasKey(LoggingOf(d), "level")

LevelOf(d) == LoggingOf(d).o["level"]

\* The 11 literals the logging level is documented to take.
PermittedLevels ==
    {JStr(x) : x \in LevelNames} \cup {JInt(n) : n \in LevelNumbers}

LevelOnlyDoc(v) == JObj([general |-> JObj([logging |-> JObj([level |-> v])])])

\* C1: a top-level mapping without the `general` key fails validation, and
\* the violations include the missing required property `general`, whatever
\* other sections the document has.
C1_MissingGeneralReported ==
    (Done /\ IsObj(doc) /\ "general" \notin DOMAIN doc.o)
        => /\ ~valid
           /\ \E i \in 1..Len(errors) :
                 errors[i] = Violation(<< >>, "required", {"general"}, "")

C1_Witness ==
    /\ Done /\ IsObj(doc) /\ "general" \notin DOMAIN doc.o
    /\ {"observations", "grid", "model"} \subseteq DOMAIN doc.o
    /\ Len(errors) = 1

\* C2: a document whose general.logging.level is none of the 11 permitted
\* literals fails validation with a violation at general.logging.level.
C2_BadLevelRejected ==
    (Done /\ HasLevel(doc) /\ LevelOf(doc) \notin PermittedLevels)
        => ~valid /\ HasViolationAt(LevelPath)

C2_Witness ==
    /\ Done /\ HasLevel(doc) /\ LevelOf(doc) = JStr("VERBOSE")
    /\ errors = << Violation(LevelPath, "enum", {}, "") >>

\* C3: each of the 11 permitted literals, the numeric ones 50, 40, 30, 20,
\* 10 included, makes {general: {logging: {level: <literal>}}} pass
\* validation with zero violations.
C3_EveryLiteralAccepted ==
    (Done /\ \E v \in PermittedLevels : doc = LevelOnlyDoc(v))
        => valid /\ errors = << >>

\* C4: `filemode` present without `filename` in general.logging fails
\* validation with a dependency violation, even when nothing else is wrong.
C4_FilemodeNeedsFilename ==
    (Done /\ HasLogging(doc) /\ HasKey(LoggingOf(doc), "filemode")
          /\ "filename" \notin DOMAIN LoggingOf(doc).o)
        => /\ ~valid
           /\ \E i \in 1..Len(errors) :
                 errors[i] = Violation(LoggingPath, "dependencies",
                                       {"filename"}, "filemode")

C4_Witness ==
    /\ Done
    /\ doc = JObj([general |-> JObj([logging |->
                JObj([level |-> JStr("INFO"), filemode |-> JStr("w")])])])
    /\ errors = << Violation(LoggingPath, "dependencies", {"filename"}, "filemode") >>

GeneralPath == << Key("general") >>

OmitsLogging(d) ==
    HasKey(d, "general") /\ IsObj(d.o["general"])
        /\ "logging" \notin DOMAIN d.o["general"].o

EmptyLogging(d) == HasLogging(d) /\ LoggingOf(d) = EmptyObj

C6_MinimalDocValid ==
    (Done /\ doc = LevelOnlyDoc(JStr("INFO"))) => (valid /\ errors = << >>)

C6_Witness == Done /\ doc = LevelOnlyDoc(JStr("INFO")) /\ valid /\ config = doc

TopLevelKeys == {"general", "observations", "grid", "model", "analysis"}

OptionalSections == {"observations", "grid", "model", "analysis"}

\* C7: a valid document is an object whose keys are among general,
\* observations, grid, model, analysis; any other top-level key fails
\* validation; the absence of observations, grid, model or analysis is
\* never a violation.
C7_TopLevelClosed ==
    /\ (Done /\ valid) => (IsObj(doc) /\ DOMAIN doc.o \subseteq TopLevelKeys)
    /\ (Done /\ IsObj(doc) /\ ~(DOMAIN doc.o \subseteq TopLevelKeys))
          => /\ ~valid
             /\ \E i \in 1..Len(errors) :
                   errors[i] = Violation(<< >>, "additionalProperties",
                                         DOMAIN doc.o \ TopLevelKeys, "")
    /\ Done => \A i \in 1..Len(errors) :
                  ~(errors[i].keyword = "required"
                      /\ errors[i].what \cap OptionalSections # {})
    /\ (Done /\ IsObj(doc) /\ DOMAIN doc.o \subseteq TopLevelKeys
             /\ HasKey(doc, "general") /\ doc.o["general"] = MinimalGeneral)
          => ~HasViolationAt(<< >>)

C7_Witness ==
    /\ Done
    /\ doc = JObj([general |-> MinimalGeneral, datasets |-> JInt(1)])
    /\ errors = << Violation(<< >>, "additionalProperties", {"datasets"}, "") >>

\* The entries of observations.filter, when it is a sequence.
Entries(d) ==
    IF HasKey(d, "observations") /\ HasKey(d.o["observations"], "filter")
          /\ IsArr(d.o["observations"].o["filter"])
    THEN d.o["observations"].o["filter"].a
    ELSE << >>

\* The path of the i-th entry (paths count from 0).
EntryPath(i) == << Key("observations"), Key("filter"), Idx(i - 1) >>

FilterDoc(e) ==
    JObj([general |-> MinimalGeneral,
          observations |-> JObj([filter |-> JArr(<< e >>)])])

DeclaredFilterKeys ==
    {"exclude", "inverted", "filter_type", "frame", "lon", "lat", "radius",
     "border", "variable", "value_range", "obs_ids"}

\* C8: a filter entry with an undeclared property fails validation with an
\* additional-property violation at that entry, whatever its filter_type.
C8_FilterEntryClosed ==
    Done => \A i \in 1..Len(Entries(doc)) :
        LET e == Entries(doc)[i]
        IN (IsObj(e) /\ ~(DOMAIN e.o \subseteq DeclaredFilterKeys))
              => /\ ~valid
                 /\ \E j \in 1..Len(errors) :
                       errors[j] = Violation(EntryPath(i), "additionalProperties",
                                             DOMAIN e.o \ DeclaredFilterKeys, "")

C8_Witness ==
    /\ Done
    /\ doc = FilterDoc(JObj([filter_type |-> JStr("sky_circle"), foo |-> JInt(1)]))
    /\ errors = << Violation(EntryPath(1), "additionalProperties", {"foo"}, "") >>

RangePath(i) == Append(EntryPath(i), Key("value_range"))

ExactlyTwoNumbers(v) ==
    IsArr(v) /\ Len(v.a) = 2 /\ \A j \in 1..Len(v.a) : IsNumeric(v.a[j])

\* C9: value_range is accepted only as a sequence of exactly 2 numbers;
\* lengths 0, 1, 3 and more fail with the array-length constraint, and a
\* non-numeric item fails.
C9_ValueRangeIsPair ==
    Done => \A i \in 1..Len(Entries(doc)) :
        LET e == Entries(doc)[i]
            v == e.o["value_range"]
        IN HasKey(e, "value_range")
              => /\ valid => ExactlyTwoNumbers(v)
                 /\ (IsArr(v) /\ Len(v.a) < 2)
                       => ~valid /\ HasViolation(RangePath(i), "minItems")
                 /\ (IsArr(v) /\ Len(v.a) > 2)
                       => ~valid /\ HasViolation(RangePath(i), "maxItems")
                 /\ IsArr(v) => \A j \in 1..Len(v.a) :
                       ~IsNumeric(v.a[j])
                          => ~valid /\ HasViolation(Append(RangePath(i), Idx(j - 1)),
                                                    "type")
                 /\ (ExactlyTwoNumbers(v) /\ DOMAIN e.o = {"value_range"}
                        /\ doc = FilterDoc(e))
                       => valid

C9_Witness ==
    /\ Done
    /\ doc = FilterDoc(JObj([filter_type |-> JStr("par_box"),
                             value_range |-> JArr(<< JInt(1), JInt(5), JInt(5) >>)]))
    /\ errors = << Violation(RangePath(1), "maxItems", {}, "") >>

FilterTypeLiterals ==
    {JStr(x) : x \in {"sky_circle", "angle_box", "quantity_box", "par_box", "ids"}}

FrameLiterals == {JStr(x) : x \in {"galactic", "equatorial", "icrs", "fk5"}}

\* A field of a filter entry takes its values in a set of literals: any
\* other value is a violation at the field, a listed value is none.
FieldInLiterals(i, field, literals) ==
    LET e == Entries(doc)[i]
        p == Append(EntryPath(i), Key(field))
    IN HasKey(e, field)
          => IF e.o[field] \in literals
             THEN ~HasViolationAt(p)
             ELSE ~valid /\ HasViolation(p, "enum")

\* C10: in a filter entry, filter_type must be one of sky_circle, angle_box,
\* quantity_box, par_box, ids and frame one of galactic, equatorial, icrs,
\* fk5; any other value fails validation and each listed value is accepted.
C10_FilterEnums ==
    Done => /\ \A i \in 1..Len(Entries(doc)) :
                  /\ FieldInLiterals(i, "filter_type", FilterTypeLiterals)
                  /\ FieldInLiterals(i, "frame", FrameLiterals)
            /\ \A ft \in FilterTypeLiterals, fr \in FrameLiterals :
                  doc = FilterDoc(JObj([filter_type |-> ft, frame |-> fr]))
                     => valid

C10_Witness ==
    /\ Done
    /\ doc = FilterDoc(JObj([filter_type |-> JStr("ids"), frame |-> JStr("fk4")]))
    /\ errors = << Violation(Append(EntryPath(1), Key("frame")), "enum", {}, "") >>

\* The constraints a document breaks, among three independent ones.
UnknownTopKey(d) == IsObj(d) /\ ~(DOMAIN d.o \subseteq TopLevelKeys)

BadLevel(d) == HasLevel(d) /\ LevelOf(d) \notin PermittedLevels

LongRange(d, i) ==
    /\ HasKey(Entries(d)[i], "value_range")
    /\ IsArr(Entries(d)[i].o["value_range"])
    /\ Len(Entries(d)[i].o["value_range"].a) > 2

LongRanges(d) == {i \in 1..Len(Entries(d)) : LongRange(d, i)}

BrokenCount(d) ==
    (IF UnknownTopKey(d) THEN 1 ELSE 0) + (IF BadLevel(d) THEN 1 ELSE 0)
      + Cardinality(LongRanges(d))

\* C12: when a document breaks several independent constraints at once (an
\* unknown top-level key, an invalid logging level, a filter entry with a
\* value_range of 3 items), one validation run reports a violation for each
\* of them: it does not stop at the first.
C12_EveryBrokenConstraintReported ==
    Done => /\ UnknownTopKey(doc) => HasViolation(<< >>, "additionalProperties")
            /\ BadLevel(doc) => HasViolationAt(LevelPath)
            /\ \A i \in LongRanges(doc) : HasViolation(RangePath(i), "maxItems")
            /\ Len(errors) >= BrokenCount(doc)

C12_Witness ==
    /\ Done
    /\ UnknownTopKey(doc) /\ BadLevel(doc) /\ LongRanges(doc) # {}
    /\ HasViolation(<< >>, "additionalProperties")
    /\ HasViolation(LevelPath, "enum")
    /\ HasViolation(RangePath(1), "maxItems")
    /\ Len(errors) = 3

LoggingKeys == {"level", "filename", "filemode", "format", "datefmt"}

GeneralKeys == {"out_folder", "logging"}

GeneralOf(d) == d.o["general"]

HasGeneralObj(d) == HasKey(d, "general") /\ IsObj(GeneralOf(d))

\* C14: general.logging accepts only the keys level, filename, filemode,
\* format, datefmt and general only out_folder and logging; any other key
\* in either object fails validation, and so does a logging without level.
C14_GeneralAndLoggingClosed ==
    Done =>
      /\ (HasLogging(doc) /\ IsObj(LoggingOf(doc)))
            => LET keys == DOMAIN LoggingOf(doc).o
               IN /\ IF keys \subseteq LoggingKeys
                     THEN ~HasViolation(LoggingPath, "additionalProperties")
                     ELSE /\ ~valid
                          /\ \E i \in 1..Len(errors) :
                                errors[i] = Violation(LoggingPath,
                                               "additionalProperties",
                                               keys \ LoggingKeys, "")
                  /\ "level" \notin keys
                        => /\ ~valid
                           /\ \E i \in 1..Len(errors) :
                                 errors[i] = Violation(LoggingPath, "required",
                                                       {"level"}, "")
      /\ HasGeneralObj(doc)
            => LET keys == DOMAIN GeneralOf(doc).o
               IN IF keys \subseteq GeneralKeys
                  THEN ~HasViolation(GeneralPath, "additionalProperties")
                  ELSE /\ ~valid
                       /\ \E i \in 1..Len(errors) :
                             errors[i] = Violation(GeneralPath,
                                            "additionalProperties",
                                            keys \ GeneralKeys, "")

C14_Witness ==
    /\ Done
    /\ doc = JObj([general |-> JObj([logging |->
                JObj([level |-> JStr("INFO"), handlers |-> JStr("console")])])])
    /\ errors = << Violation(LoggingPath, "additionalProperties", {"handlers"}, "") >>

OutFolderPath == << Key("general"), Key("out_folder") >>

MentionsOutFolder(e) == e.path = OutFolderPath \/ "out_folder" \in e.what

\* C15: general.out_folder is optional: without it the document validates
\* (the declared default is "."), with a string it validates, and with a
\* value that is not a string (number, boolean, sequence, mapping) it fails.
C15_OutFolderOptionalString ==
    /\ OutFolderSchema.default = JStr(".")
    /\ (Done /\ HasGeneralObj(doc))
          => IF HasKey(GeneralOf(doc), "out_folder")
                  /\ GeneralOf(doc).o["out_folder"].t # "string"
             THEN /\ ~valid
                  /\ \E i \in 1..Len(errors) :
                        errors[i] = Violation(OutFolderPath, "type", {"string"}, "")
             ELSE \A i \in 1..Len(errors) : ~MentionsOutFolder(errors[i])
    /\ (Done /\ \E f \in Opt("out_folder", {JStr("."), JStr("results")}) :
                  doc = JObj([general |->
                            JObj(("logging" :> JObj([level |-> JStr("INFO")])) @@ f)]))
          => valid

C15_Witness ==
    /\ Done
    /\ doc = JObj([general |-> JObj([logging |-> JObj([level |-> JStr("INFO")]),
                                     out_folder |-> JArr(<< JStr(".") >>)])])
    /\ errors = << Violation(OutFolderPath, "type", {"string"}, "") >>

ObservationsPath == << Key("observations") >>

ObservationsOf(d) == d.o["observations"]

HasObservationsObj(d) == HasKey(d, "observations") /\ IsObj(ObservationsOf(d))

\* The violations of the i-th filter entry against the Observation Filter.
EntryErrors(d, i) == Errors(ObservationsFilter, Entries(d)[i], EntryPath(i))

IsReported(e) == \E j \in 1..Len(errors) : errors[j] = e

\* C16: observations permits only data_store and filter; data_store must be
\* a string, filter a sequence, and the document is valid only if every
\* element of the sequence, at every index, validates against the
\* Observation Filter.
C16_ObservationsShape ==
    (Done /\ HasObservationsObj(doc)) =>
      LET obs == ObservationsOf(doc)
          keys == DOMAIN obs.o
      IN /\ IF keys \subseteq {"data_store", "filter"}
            THEN ~HasViolationAt(ObservationsPath)
            ELSE ~valid /\ IsReported(Violation(ObservationsPath,
                              "additionalProperties",
                              keys \ {"data_store", "filter"}, ""))
         /\ "data_store" \in keys
               => IF obs.o["data_store"].t = "string"
                  THEN ~HasViolationAt(Append(ObservationsPath, Key("data_store")))
                  ELSE ~valid /\ IsReported(Violation(
                                    Append(ObservationsPath, Key("data_store")),
                                    "type", {"string"}, ""))
         /\ ("filter" \in keys /\ ~IsArr(obs.o["filter"]))
               => ~valid /\ IsReported(Violation(
                                 Append(ObservationsPath, Key("filter")),
                                 "type", {"array"}, ""))
         /\ \A i \in 1..Len(Entries(doc)) :
               /\ ~IsObj(Entries(doc)[i])
                     => IsReported(Violation(EntryPath(i), "type", {"object"}, ""))
               /\ \A j \in 1..Len(EntryErrors(doc, i)) :
                     ~valid /\ IsReported(EntryErrors(doc, i)[j])
         /\ (keys = {"filter"} /\ IsArr(obs.o["filter"])
                /\ doc = JObj([general |-> MinimalGeneral, observations |-> obs]))
               => (valid <=> \A i \in 1..Len(Entries(doc)) :
                                EntryErrors(doc, i) = << >>)

C16_Witness ==
    /\ Done
    /\ doc = JObj([general |-> MinimalGeneral,
                   observations |-> JObj([filter |-> JArr(
                       << JObj([filter_type |-> JStr("sky_circle"),
                                frame |-> JStr("icrs")]),
                          JObj([filter_type |-> JStr("sky_circle"),
                                foo |-> JInt(1)]) >>)])])
    /\ errors = << Violation(EntryPath(2), "additionalProperties", {"foo"}, "") >>

OpenSections == {"grid", "model", "analysis"}

\* C17: grid, model and analysis accept any object, whatever its keys and
\* nested values, and are rejected when their value is not an object.
C17_OpenSections ==
    Done => \A k \in OpenSections :
        HasKey(doc, k)
          => /\ IF IsObj(doc.o[k])
                THEN \A i \in 1..Len(errors) :
                        errors[i].path = << >> \/ errors[i].path[1] # Key(k)
                ELSE ~valid /\ IsReported(Violation(<< Key(k) >>, "type",
                                                    {"object"}, ""))
             /\ (IsObj(doc.o[k]) /\ doc = JObj(("general" :> MinimalGeneral)
                                                 @@ (k :> doc.o[k])))
                   => valid

C17_Witness ==
    /\ Done
    /\ doc = JObj([general |-> MinimalGeneral,
                   grid |-> JObj([general |-> JInt(1), foo |-> JNull,
                                  level |-> JStr("VERBOSE")])])
    /\ valid

IdsPath(i) == Append(EntryPath(i), Key("obs_ids"))

\* An element that is not an integer whatever the reading: a value that is
\* not a number, or a number with a fractional part.
NotAnInteger(v) == ~IsNumeric(v) \/ (v.t = "float" /\ v.tenths % 10 # 0)

\* C18: obs_ids must be a sequence whose every element is an integer; a
\* sequence with a non-integer element, or a value that is not a sequence,
\* fails validation; the empty sequence is accepted.
C18_ObsIdsIntegers ==
    Done => \A i \in 1..Len(Entries(doc)) :
        LET e == Entries(doc)[i]
            v == e.o["obs_ids"]
        IN HasKey(e, "obs_ids")
              => /\ ~IsArr(v)
                       => ~valid /\ IsReported(Violation(IdsPath(i), "type",
                                                         {"array"}, ""))
                 /\ IsArr(v) => \A j \in 1..Len(v.a) :
                       /\ v.a[j].t = "integer"
                             => ~HasViolationAt(Append(IdsPath(i), Idx(j - 1)))
                       /\ NotAnInteger(v.a[j])
                             => ~valid /\ IsReported(Violation(
                                              Append(IdsPath(i), Idx(j - 1)),
                                              "type", {"integer"}, ""))
                 /\ (IsArr(v) /\ (\A j \in 1..Len(v.a) : v.a[j].t = "integer")
                        /\ doc = FilterDoc(JObj("obs_ids" :> v)))
                       => valid

C18_Witness ==
    /\ Done
    /\ doc = FilterDoc(JObj([filter_type |-> JStr("ids"),
                             obs_ids |-> JArr(<< JInt(7), JFloat(25) >>)]))
    /\ errors = << Violation(Append(IdsPath(1), Idx(1)), "type", {"integer"}, "") >>

\* C19: validation has no side effects: the document handed to it is the
\* same tree after the validation as before (no key added, removed or
\* coerced, no default injected), and what is accepted is that document.
C19_ValidationKeepsInput ==
    [][(pc = "parsed") => (doc' = doc /\ config' \in {doc, NoDoc})]_vars

C19_Witness ==
    /\ Done
    /\ doc = JObj([general |-> JObj([logging |-> EmptyObj])])
    /\ ~valid /\ config = NoDoc

Validated == pc \in {"validated", "running"}

\* C20: a validated configuration is never mutated: in every state after
\* the validation step the held configuration is the document that was
\* validated, and validation happens once, after parsing and before the
\* configuration is used.
C20_ValidatedOnceThenImmutable ==
    /\ [](pc = "running" => (valid /\ errors = << >> /\ config = doc))
    /\ [][Validated => /\ Validated'
                       /\ <<doc, valid, errors, config>>' = <<doc, valid, errors, config>>]_vars
    /\ [][(pc' = "validated" /\ pc # "validated") => pc = "parsed"]_vars
    /\ [][(pc' = "running" /\ pc # "running") => pc = "validated"]_vars

C20_Witness ==
    /\ pc = "running"
    /\ doc = JObj([general |-> MinimalGeneral,
                   observations |-> JObj([data_store |-> JStr("$GAMMAPY_DATA"),
                                          filter |-> JArr(<< >>)])])
    /\ config = doc

EntryWithout(e, k) == JObj([x \in DOMAIN e.o \ {k} |-> e.o[x]])

\* C22: validation never requires or forbids a filter field on the basis of
\* filter_type: an entry with only a filter_type validates for each of the
\* five types, and so do an entry without filter_type and the empty object.
C22_NoPerTypeFields ==
    Done =>
      /\ \A e \in {EmptyObj} \cup {JObj("filter_type" :> v) : v \in FilterTypeLiterals} :
            doc = FilterDoc(e) => valid
      /\ \A i \in 1..Len(Entries(doc)) :
            LET e == Entries(doc)[i]
                p == Append(EntryPath(i), Key("filter_type"))
            IN /\ ~HasViolation(EntryPath(i), "required")
               /\ ~HasViolation(EntryPath(i), "dependencies")
               /\ HasKey(e, "filter_type")
                     => Errors(ObservationsFilter, EntryWithout(e, "filter_type"),
                               EntryPath(i))
                          = SelectSeq(EntryErrors(doc, i), LAMBDA x : x.path # p)

C22_Witness ==
    /\ Done
    /\ doc = FilterDoc(JObj([filter_type |-> JStr("sky_circle")]))
    /\ valid

\* C23: the keys accepted in a filter entry are exactly exclude, inverted,
\* filter_type, frame, lon, lat, radius, border, variable, value_range,
\* obs_ids; exclude and inverted validate with a boolean and fail with any
\* other value.
C23_FilterKeysAndFlags ==
    Done => \A i \in 1..Len(Entries(doc)) :
        LET e == Entries(doc)[i]
        IN IsObj(e) =>
             /\ HasViolation(EntryPath(i), "additionalProperties")
                   <=> ~(DOMAIN e.o \subseteq DeclaredFilterKeys)
             /\ \A k \in {"exclude", "inverted"} :
                   k \in DOMAIN e.o
                     => /\ IF e.o[k].t = "boolean"
                           THEN ~HasViolationAt(Append(EntryPath(i), Key(k)))
                           ELSE ~valid /\ IsReported(Violation(
                                    Append(EntryPath(i), Key(k)),
                                    "type", {"boolean"}, ""))
                        /\ (e.o[k].t = "boolean" /\ doc = FilterDoc(JObj(k :> e.o[k])))
                              => valid

C23_Witness ==
    /\ Done
    /\ doc = FilterDoc(JObj([inverted |-> JBool(TRUE)]))
    /\ valid

NumberFields == {"lon", "lat", "radius", "border"}

\* C24: in a filter entry lon, lat, radius and border must be numbers and
\* variable a string; a value of another type fails validation with a
\* violation whose path names that field of that entry.
C24_FilterFieldTypes ==
    Done => \A i \in 1..Len(Entries(doc)) :
        LET e == Entries(doc)[i]
        IN IsObj(e) =>
             /\ \A k \in NumberFields :
                   k \in DOMAIN e.o
                     => IF e.o[k].t \in {"integer", "float"}
                        THEN ~HasViolationAt(Append(EntryPath(i), Key(k)))
                        ELSE ~valid /\ IsReported(Violation(
                                 Append(EntryPath(i), Key(k)),
                                 "type", {"number"}, ""))
             /\ "variable" \in DOMAIN e.o
                   => IF e.o["variable"].t = "string"
                      THEN ~HasViolationAt(Append(EntryPath(i), Key("variable")))
                      ELSE ~valid /\ IsReported(Violation(
                               Append(EntryPath(i), Key("variable")),
                               "type", {"string"}, ""))

C24_Witness ==
    /\ Done
    /\ doc = JObj([general |-> MinimalGeneral,
                   observations |-> JObj([filter |-> JArr(
                       << EmptyObj, JObj([radius |-> JStr("1")]) >>)])])
    /\ errors = << Violation(Append(EntryPath(2), Key("radius")),
                             "type", {"number"}, "") >>

\* C25: the validity result is true if and only if the violation list is
\* empty: no failure with zero violations, no success with one or more.
C25_ValidIffNoViolation == Validated => (valid <=> errors = << >>)

C25_Witness ==
    /\ Done
    /\ doc = LevelOnlyDoc(JInt(60))
    /\ ~valid /\ Len(errors) = 2

FileDoc(f) ==
    JObj([general |-> JObj([logging |-> JObj(("level" :> JStr("INFO")) @@ f)])])

\* C26: the logging dependency is one-directional: filename without
\* filemode validates, both together validate, and the only dependency
\* violation is filemode without filename.
C26_DependencyOneWay ==
    Done =>
      /\ doc = FileDoc("filename" :> JStr("gammapy.log")) => valid
      /\ doc = FileDoc(("filename" :> JStr("gammapy.log"))
                         @@ ("filemode" :> JStr("w"))) => valid
      /\ \A i \in 1..Len(errors) :
            errors[i].keyword = "dependencies"
              => /\ errors[i] = Violation(LoggingPath, "dependencies",
                                          {"filename"}, "filemode")
                 /\ HasKey(LoggingOf(doc), "filemode")
                 /\ "filename" \notin DOMAIN LoggingOf(doc).o

C26_Witness ==
    /\ Done
    /\ doc = FileDoc("filename" :> JStr("gammapy.log"))
    /\ valid

IsPrefix(p, q) == Len(p) <= Len(q) /\ \A k \in 1..Len(p) : q[k] = p[k]

\* C27: validation puts no order on the two items of value_range: a pair
\* whose first item is greater than the second, and a pair of equal items,
\* validate like any pair of numbers.
C27_ValueRangeUnordered ==
    Done =>
      /\ \A a, b \in {x \in RangeItems : IsNumeric(x)} :
            doc = FilterDoc(JObj("value_range" :> JArr(<< a, b >>))) => valid
      /\ \A i \in 1..Len(Entries(doc)) :
            LET e == Entries(doc)[i]
            IN (HasKey(e, "value_range") /\ ExactlyTwoNumbers(e.o["value_range"]))
                  => \A j \in 1..Len(errors) :
                        ~IsPrefix(RangePath(i), errors[j].path)

C27_Witness ==
    /\ Done
    /\ doc = FilterDoc(JObj([value_range |-> JArr(<< JInt(5), JInt(1) >>)]))
    /\ valid

DocWithout(d, k) == JObj([x \in DOMAIN d.o \ {k} |-> d.o[x]])

BareObservations ==
    { EmptyObj, JObj([data_store |-> JStr("$GAMMAPY_DATA")]),
      JObj([filter |-> JArr(<< >>)]) }

\* C28: observations has no required content: adding it as an empty object,
\* with only data_store, or with an empty filter sequence leaves a valid
\* document valid (and adds no violation to any document).
C28_ObservationsNothingRequired ==
    (Done /\ HasKey(doc, "observations")
          /\ ObservationsOf(doc) \in BareObservations)
        => /\ errors = Validate(DocWithout(doc, "observations"))
           /\ valid <=> IsValid(DocWithout(doc, "observations"))

C28_Witness ==
    /\ Done
    /\ doc = JObj([general |-> MinimalGeneral,
                   grid |-> EmptyObj,
                   observations |-> JObj([data_store |-> JStr("$GAMMAPY_DATA")])])
    /\ valid

RECURSIVE ErrorsUpTo(_, _)
\* The violations a validation running alone has found after n keywords.
ErrorsUpTo(d, n) ==
    IF n = 0 THEN << >>
    ELSE ErrorsUpTo(d, n - 1) \o KeywordErrors(RootKeywords[n], RootSchema, d, << >>)

\* C21: in every interleaving of concurrent validations, of the same or of
\* different documents, each invocation is at every step where it would be
\* running alone and returns the result of validating its document alone;
\* a step of one invocation changes no other invocation and no document.
C21_InterleavingsMatchLoneRuns ==
    [][ \A w \in Workers :
          /\ workers'[w].state # "idle" =>
                workers'[w].errors = ErrorsUpTo(workers'[w].doc, workers'[w].step - 1)
          /\ workers'[w].state = "done" =>
                /\ workers'[w].errors = Validate(workers'[w].doc)
                /\ workers'[w].valid = IsValid(workers'[w].doc)
          /\ (workers[w].state = "running" /\ workers'[w].state # "idle") =>
                workers'[w].doc = workers[w].doc
          /\ \A v \in Workers \ {w} :
                workers'[w] # workers[w] => workers'[v] = workers[v] ]_vars

\* Two validations are in progress at once, one ahead of the other, on
\* documents with different results, and one of them has found violations.
C21_Witness ==
    /\ workers[1].state = "running" /\ workers[2].state = "done"
    /\ workers[1].step = 3
    /\ workers[1].errors # << >>
    /\ workers[2].valid
    /\ workers[1].doc # workers[2].doc


ExpectedNames ==
    << "dataset-0", "dataset-1", "dataset-2", "dataset-3", "dataset-4",
       "dataset-5", "dataset-6", "dataset-7", "dataset-8", "dataset-9" >>

Dataset(i) == objects[datasets[i]]

\* C29: the simulation loop appends exactly n_obs = 10 datasets, in the
\* order of idx = 0..9, each named dataset-<idx> with obs_id = idx, each a
\* copy of its own of the empty dataset, with the time interval
\* [tstart[idx], tstart[idx] + lvtm[idx]]; the intervals start in strictly
\* increasing order and do not overlap.
C29_TenDatasetsDisjointIntervals ==
    /\ Len(datasets) = idx /\ idx <= n_obs /\ n_obs = 10
    /\ objects[EmptyId] = empty
    /\ \A i \in 1..Len(datasets) :
          /\ datasets[i] # EmptyId
          /\ Dataset(i).name = ExpectedNames[i]
          /\ Dataset(i).obs_id = i - 1
          /\ Dataset(i).gti_start = 60 * tstart[i]
          /\ Dataset(i).gti_stop = 60 * tstart[i] + lvtm[i]
    /\ \A i, j \in 1..Len(datasets) :
          i < j => /\ datasets[i] # datasets[j]
                   /\ Dataset(i).name # Dataset(j).name
                   /\ Dataset(i).gti_start < Dataset(j).gti_start
                   /\ Dataset(i).gti_stop < Dataset(j).gti_start

C29_Witness ==
    /\ idx = n_obs
    /\ Len(datasets) = 10
    /\ Dataset(10).name = "dataset-9"
    /\ ~ENABLED Simulate

====
